---- MODULE Spec2Model ----
(***************************************************************************)
(* A model of the two streaming pipelines of scmire's read extractor:      *)
(*   parse_paired  (src/rust/src/kractor/reads/paired.rs)   "Pipeline F"   *)
(*   parse_koutput (src/rust/src/koutput_reads/koutput.rs)  "Pipeline K"   *)
(* Every OS thread of a pipeline is a process of the model; one action is  *)
(* one channel operation of a thread together with the thread-local code   *)
(* around it.  An Option<T> is a sequence of length at most one            *)
(* (<<>> is None, <<x>> is Some(x)).                                       *)
(***************************************************************************)
EXTENDS Integers, Sequences, FiniteSets, TLC

\* ------------------------------------------------------------------------
\* Bounds of the explored inputs
\* ------------------------------------------------------------------------
MaxRecs == 2       \* records per FASTQ input
MaxRecsOne == 3    \* records per FASTQ input of a well-formed run with one worker
MaxThreads == 2    \* filter / parser workers
MaxBatch == 2      \* batch_size
MaxChunkLog == 2   \* chunk_bytes = 2^0 .. 2^MaxChunkLog
MaxQueue == 1      \* nqueue = Some(0..MaxQueue), or None
MaxLines == 3      \* lines of a classification report

VARIABLES
    cfg,        \* the arguments of parse_paired
    input1,     \* the records of the first FASTQ file
    input2,     \* the records of the second FASTQ file
    chan,       \* the six channels of parse_paired: name -> queue of messages
    res,        \* thread -> result of the thread's closure (or Running)
    rpos,       \* reader i -> number of records already handed to the channel
    coll,       \* locals of the reader-collect thread
    wk,         \* locals of each filter worker
    disp,       \* locals of the writer-dispatch thread
    out1,       \* packs written to output 1, in order
    out2,       \* packs written to output 2, in order
    result,     \* what the top-level call returned (or Running)
    report,     \* parse_koutput: the lines of the classification report
    kpos,       \* parse_koutput: lines the reader already handed to the channel
    kwk,        \* parse_koutput: locals of each parser worker
    drained,    \* parse_koutput: the tuples the main thread took from koutput_rx
    selection   \* parse_koutput: the entries of the returned map

varsF == <<cfg, input1, input2, chan, res, rpos, coll, wk, disp, out1, out2, result>>
varsK == <<report, kpos, kwk, drained, selection>>

vars == <<varsF, varsK>>

\* ------------------------------------------------------------------------
\* Small helpers
\* ------------------------------------------------------------------------
None == <<>>
Some(x) == <<x>>

Min(a, b) == IF a < b THEN a ELSE b
Max(a, b) == IF a < b THEN b ELSE a

Running == [st |-> "Running"]
Ok == [st |-> "Ok"]
Absent == [st |-> "Absent"]
Unspawned == [st |-> "Unspawned"]
Err(kind) == [st |-> "Err", kind |-> kind]
FastqPairError(id1, id2) ==
    [st |-> "Err", kind |-> "FastqPairError", read1_id |-> id1, read2_id |-> id2]

\* ------------------------------------------------------------------------
\* FASTQ records and pools
\* ------------------------------------------------------------------------
\* A record is [id, mate, pos]: its identifier and its content, the content
\* standing for (file, position in file).
FastqRecord(id, mate, pos) == [id |-> id, mate |-> mate, pos |-> pos]

\* record.bytes_size(): the reads of the second mate are the longer ones
\* here, so that the two pools fill at different rates.
bytes_size(r) == IF r.mate = 1 THEN 1 ELSE 2

RECURSIVE PoolLen(_)
PoolLen(pool) ==
    IF pool = <<>> THEN 0 ELSE bytes_size(Head(pool)) + PoolLen(Tail(pool))

\* Vec growth on extend: amortised doubling when the capacity is exceeded.
GrowCap(cap, need) == IF need <= cap THEN cap ELSE Max(2 * cap, need)

\* gz_compressed(path): the extension of the path is "gz", in any case.
\* A path is modelled by its extension.
gz_compressed(path) == path \in {"gz", "GZ", "Gz", "gZ"}

\* A gzip member: header, the deflated bytes, trailer with the size of the
\* data.
GzHeader == [magic |-> "1f8b"]
GzTrailer(bytes) == [isize |-> Len(bytes)]

\* Mutant of gzip_pack: the pack is not truncated to the compressed size.
gzip_pack_untruncated(bytes) ==
    <<GzHeader>> \o bytes \o <<GzTrailer(bytes)>> \o <<[pad |-> 0]>>

\* gzip_pack(bytes, compressor): the bytes as one gzip member.
gzip_pack(bytes) == <<GzHeader>> \o bytes \o <<GzTrailer(bytes)>>

\* A pack: the records it was made of, and its bytes, which are one gzip
\* member (gzip_pack) or the plain pool.
Pack(gz, pool) ==
    [gz |-> gz, recs |-> pool, bytes |-> IF gz THEN gzip_pack(pool) ELSE pool]

\* ------------------------------------------------------------------------
\* Threads and channels of parse_paired
\* ------------------------------------------------------------------------
writer1_handle == <<"writer1", 0>>
writer2_handle == <<"writer2", 0>>
writer_handle == <<"writer", 0>>
parser_handle(w) == <<"parser", w>>
reader_handle == <<"reader", 0>>
reader1_handle == <<"reader1", 0>>
reader2_handle == <<"reader2", 0>>

Workers == 1 .. cfg.threads
parser_handles == [w \in Workers |-> parser_handle(w)]

Threads ==
    {writer1_handle, writer2_handle, writer_handle, reader_handle,
     reader1_handle, reader2_handle} \cup {parser_handle(w) : w \in Workers}

Channels == {"writer", "writer1", "writer2", "reader", "reader1", "reader2"}

\* Threads and channels of parse_koutput.
kreader_handle == <<"kreader", 0>>
kparser_handle(w) == <<"kparser", w>>
kparser_handles == [w \in Workers |-> kparser_handle(w)]
KThreads == {kreader_handle} \cup {kparser_handle(w) : w \in Workers}
KChannels == {"kreader", "koutput"}

Alive(t) == res[t].st = "Running"

\* The threads that own a Sender of the channel (the main thread dropped
\* its own writer_tx before the readers were spawned).
SendersOf(ch) ==
    CASE ch = "writer" -> {parser_handle(w) : w \in Workers}
      [] ch = "writer1" -> {writer_handle}
      [] ch = "writer2" -> {writer_handle}
      [] ch = "reader" -> {reader_handle}
      [] ch = "reader1" -> {reader1_handle}
      [] ch = "reader2" -> {reader2_handle}
      [] ch = "kreader" -> {kreader_handle}
      [] ch = "koutput" -> {kparser_handle(w) : w \in Workers}

\* The threads that own a Receiver of the channel.  The receiver of a
\* disabled output stays in the scope closure, which outlives every thread.
ReceiversOf(ch) ==
    CASE ch = "writer" -> {writer_handle}
      [] ch = "writer1" -> {writer1_handle}
      [] ch = "writer2" -> {writer2_handle}
      [] ch = "reader" -> {parser_handle(w) : w \in Workers}
      [] ch = "reader1" -> {reader_handle}
      [] ch = "reader2" -> {reader_handle}
      [] ch = "kreader" -> {kparser_handle(w) : w \in Workers}
      [] ch = "koutput" -> {}

\* koutput_rx stays with the main thread of parse_koutput, which drains it.
HeldByScope(ch) ==
    \/ ch = "writer1" /\ ~cfg.has_writer1
    \/ ch = "writer2" /\ ~cfg.has_writer2
    \/ ch = "koutput"

\* Mutant of NoReceiver: the main thread keeps its reader_rx.
NoReceiverMainKeeps(ch) ==
    ch # "reader" /\ ~HeldByScope(ch) /\ \A t \in ReceiversOf(ch) : ~Alive(t)

\* All receivers dropped: send fails.
NoReceiver(ch) == ~HeldByScope(ch) /\ \A t \in ReceiversOf(ch) : ~Alive(t)
\* Mutant of NoSender: the main thread keeps its writer_tx.
NoSenderMainKeeps(ch) == ch # "writer" /\ \A t \in SendersOf(ch) : ~Alive(t)

\* All senders dropped: recv fails once the queue is empty.
NoSender(ch) == \A t \in SendersOf(ch) : ~Alive(t)

\* new_channel(nqueue): bounded(n) or unbounded().  In a zero-capacity
\* channel the message sits in the hand-over slot and its sender stays
\* blocked until a receiver takes it.
\* Mutant of Depth: koutput is made with new_channel(nqueue) as well.
DepthOfNqueue(ch) == cfg.nqueue

\* Every channel is made with new_channel(nqueue), but koutput, which is
\* made with new_channel(None).
Depth(ch) == IF ch = "koutput" THEN None ELSE cfg.nqueue
Rendezvous == cfg.nqueue = Some(0)
HasRoom(ch) ==
    \/ Depth(ch) = None
    \/ Depth(ch) # None /\ Len(chan[ch]) < Max(Depth(ch)[1], 1)

\* The thread is inside a send on a zero-capacity channel.
InSend(t, ch) ==
    /\ Depth(ch) = Some(0)
    /\ \E i \in 1 .. Len(chan[ch]) : chan[ch][i].src = t
Blocked(t) == \E ch \in DOMAIN chan : InSend(t, ch)
Ready(t) == Alive(t) /\ ~Blocked(t)

\* Mutant of Enqueue: the message is put in front of the queued ones.
EnqueueInFront(t, ch, m) == [chan EXCEPT ![ch] = <<[src |-> t, msg |-> m]>> \o @]

Enqueue(t, ch, m) == [chan EXCEPT ![ch] = Append(@, [src |-> t, msg |-> m])]
Dequeue(ch) == [chan EXCEPT ![ch] = Tail(@)]

RECURSIVE Msgs(_)
\* The messages of a queue, in order.
Msgs(q) == IF q = <<>> THEN <<>> ELSE <<Head(q).msg>> \o Msgs(Tail(q))

\* A thread returns: its result is set, and with it the channel ends it
\* owned are dropped.
Return(t, r) == [res EXCEPT ![t] = r]

\* ------------------------------------------------------------------------
\* FASTQ readers (Reader1, Reader2): read records, batch them, send batches
\* ------------------------------------------------------------------------
InputOf(i) == IF i = 1 THEN input1 ELSE input2
ReaderThread(i) == IF i = 1 THEN reader1_handle ELSE reader2_handle
ReaderChan(i) == IF i = 1 THEN "reader1" ELSE "reader2"

\* BatchSender: the next batch is the next batch_size records, or the
\* shorter rest of the file (sent by flush).
NextBatch(i) ==
    SubSeq(InputOf(i), rpos[i] + 1, Min(rpos[i] + cfg.batch_size, Len(InputOf(i))))

ReaderSend(i) ==
    LET t == ReaderThread(i)
        ch == ReaderChan(i)
    IN  /\ Ready(t)
        /\ rpos[i] < Len(InputOf(i))
        /\ \/ /\ NoReceiver(ch)
              /\ res' = Return(t, Err("ReaderSendError"))
              /\ UNCHANGED <<chan, rpos>>
           \/ /\ ~NoReceiver(ch)
              /\ HasRoom(ch)
              /\ chan' = Enqueue(t, ch, NextBatch(i))
              /\ rpos' = [rpos EXCEPT ![i] = @ + Len(NextBatch(i))]
              /\ res' = IF rpos'[i] = Len(InputOf(i)) /\ ~Rendezvous
                        THEN Return(t, Ok) ELSE res
        /\ UNCHANGED <<varsK, cfg, input1, input2, coll, wk, disp, out1, out2, result>>

\* End of file: flush has nothing left to send, the closure returns Ok and
\* the sender is dropped.  (After a buffered send of the last batch the
\* closure has nothing left to wait for, and ReaderSend returns at once; a
\* send on a zero-capacity channel must first be taken.)
ReaderFinish(i) ==
    LET t == ReaderThread(i)
    IN  /\ Ready(t)
        /\ rpos[i] = Len(InputOf(i))
        /\ res' = Return(t, Ok)
        /\ UNCHANGED <<varsK, cfg, input1, input2, chan, rpos, coll, wk, disp, out1, out2, result>>

\* new_reader(..)? or read_record()? fails: the closure returns the error.
\* The records buffered in the BatchSender are not sent.
ReaderFail(i) ==
    LET t == ReaderThread(i)
    IN  /\ Ready(t)
        /\ t \in cfg.io_error
        /\ res' = Return(t, Err(IF i = 1 THEN "Reader1ReadError" ELSE "Reader2ReadError"))
        /\ UNCHANGED <<varsK, cfg, input1, input2, chan, rpos, coll, wk, disp, out1, out2, result>>

\* A send blocked on a zero-capacity channel fails when the last receiver
\* is dropped; the message comes back to the sender, whose closure returns
\* the send error.
SendErrorOf(t) ==
    CASE t[1] = "parser" -> Err("ParserSendError")
      [] t[1] = "writer" -> Err("DispatchSendError")
      [] t[1] = "reader" -> Err("CollectSendError")
      [] t[1] = "kreader" -> Err("KReaderSendError")
      [] OTHER -> Err("ReaderSendError")

SendDisconnected(t) ==
    /\ Alive(t)
    /\ \E ch \in DOMAIN chan :
          /\ InSend(t, ch)
          /\ NoReceiver(ch)
          /\ chan' = [chan EXCEPT ![ch] = SelectSeq(@, LAMBDA e : e.src # t)]
    /\ res' = Return(t, SendErrorOf(t))
    /\ UNCHANGED <<varsK, cfg, input1, input2, rpos, coll, wk, disp, out1, out2, result>>

\* ------------------------------------------------------------------------
\* Reader collect (the collator)
\* ------------------------------------------------------------------------
CollRecv1 ==
    /\ Ready(reader_handle)
    /\ coll.pc = "recv1"
    /\ \/ /\ chan["reader1"] # <<>>
          /\ coll' = [coll EXCEPT !.pc = "recv2", !.rec1 = Some(Head(chan["reader1"]).msg)]
          /\ chan' = Dequeue("reader1")
       \/ /\ chan["reader1"] = <<>>
          /\ NoSender("reader1")
          /\ coll' = [coll EXCEPT !.pc = "recv2", !.rec1 = None]
          /\ UNCHANGED chan
    /\ UNCHANGED <<varsK, cfg, input1, input2, res, rpos, wk, disp, out1, out2, result>>

\* Mutant of CollMatch: the lengths of the two batches are not compared.
CollMatchNoLength(rec1, rec2) ==
    CASE rec1 # None /\ rec2 # None -> Running
      [] rec1 = None /\ rec2 # None -> Err("Read1ClosedBeforeRead2")
      [] rec1 # None /\ rec2 = None -> Err("Read2ClosedBeforeRead1")
      [] OTHER -> Ok

\* The match on (reader1_rx.recv(), reader2_rx.recv()) and the length check.
CollMatch(rec1, rec2) ==
    CASE rec1 # None /\ rec2 # None ->
            IF Len(rec1[1]) # Len(rec2[1])
            THEN Err("RecordCountMismatch")
            ELSE Running
      [] rec1 = None /\ rec2 # None -> Err("Read1ClosedBeforeRead2")
      [] rec1 # None /\ rec2 = None -> Err("Read2ClosedBeforeRead1")
      [] OTHER -> Ok

CollDecide(rec2) ==
    IF CollMatch(coll.rec1, rec2) = Running
    THEN /\ coll' = [coll EXCEPT !.pc = "send", !.rec2 = rec2]
         /\ UNCHANGED res
    ELSE /\ res' = Return(reader_handle, CollMatch(coll.rec1, rec2))
         /\ coll' = [coll EXCEPT !.rec2 = rec2]

\* Mutant of CollRecv2: the second batch is taken from reader1_rx as well.
CollRecv2FromReader1 ==
    /\ Ready(reader_handle)
    /\ coll.pc = "recv2"
    /\ \/ /\ chan["reader1"] # <<>>
          /\ chan' = Dequeue("reader1")
          /\ CollDecide(Some(Head(chan["reader1"]).msg))
       \/ /\ chan["reader1"] = <<>>
          /\ NoSender("reader1")
          /\ UNCHANGED chan
          /\ CollDecide(None)
    /\ UNCHANGED <<varsK, cfg, input1, input2, rpos, wk, disp, out1, out2, result>>

CollRecv2 ==
    /\ Ready(reader_handle)
    /\ coll.pc = "recv2"
    /\ \/ /\ chan["reader2"] # <<>>
          /\ chan' = Dequeue("reader2")
          /\ CollDecide(Some(Head(chan["reader2"]).msg))
       \/ /\ chan["reader2"] = <<>>
          /\ NoSender("reader2")
          /\ UNCHANGED chan
          /\ CollDecide(None)
    /\ UNCHANGED <<varsK, cfg, input1, input2, rpos, wk, disp, out1, out2, result>>

CollSend ==
    /\ Ready(reader_handle)
    /\ coll.pc = "send"
    /\ \/ /\ NoReceiver("reader")
          /\ res' = Return(reader_handle, Err("CollectSendError"))
          /\ UNCHANGED <<chan, coll>>
       \/ /\ ~NoReceiver("reader")
          /\ HasRoom("reader")
          /\ chan' = Enqueue(reader_handle, "reader", <<coll.rec1[1], coll.rec2[1]>>)
          /\ coll' = [pc |-> "recv1", rec1 |-> None, rec2 |-> None]
          /\ UNCHANGED res
    /\ UNCHANGED <<varsK, cfg, input1, input2, rpos, wk, disp, out1, out2, result>>

\* ------------------------------------------------------------------------
\* Filter workers (the Parser threads of parse_paired)
\* ------------------------------------------------------------------------
\* The flush condition of the per-record loop.
NeedFlush(l, record1, record2) ==
    \/ l.cap1 - PoolLen(l.records1_pool) < bytes_size(record1)
    \/ l.cap2 - PoolLen(l.records2_pool) < bytes_size(record2)

\* The (pack1, pack2) message of a mid-stream flush.
FlushPack1(l) ==
    IF cfg.has_writer1 THEN Some(Pack(cfg.gzip1, l.records1_pool)) ELSE None
FlushPack2(l) ==
    IF cfg.has_writer2 THEN Some(Pack(cfg.gzip2, l.records2_pool)) ELSE None

\* Mutant of Swapped: only the first pool is swapped.
SwappedFirstOnly(l) ==
    [l EXCEPT !.records1_pool = IF cfg.has_writer1 THEN <<>> ELSE @,
              !.cap1 = IF cfg.has_writer1 THEN cfg.chunk_bytes ELSE @]

\* The pools after a mid-stream flush: the pool of an enabled output is
\* swapped with a fresh Vec of capacity chunk_bytes, the pool of a disabled
\* output is left as it is.
Swapped(l) ==
    [l EXCEPT !.since = 0,
              !.records1_pool = IF cfg.has_writer1 THEN <<>> ELSE @,
              !.cap1 = IF cfg.has_writer1 THEN cfg.chunk_bytes ELSE @,
              !.records2_pool = IF cfg.has_writer2 THEN <<>> ELSE @,
              !.cap2 = IF cfg.has_writer2 THEN cfg.chunk_bytes ELSE @]

\* record1.extend(&mut records1_pool); record2.extend(&mut records2_pool)
Extended(l, record1, record2) ==
    [l EXCEPT !.done = Append(@, record1.pos),
              !.since = @ + 1,
              !.records1_pool = Append(@, record1),
              !.cap1 = GrowCap(@, PoolLen(l.records1_pool) + bytes_size(record1)),
              !.records2_pool = Append(@, record2),
              !.cap2 = GrowCap(@, PoolLen(l.records2_pool) + bytes_size(record2))]

\* Mutant of Advanced: the last pair of a batch is skipped.
AdvancedSkipsLast(l) ==
    IF l.i + 1 < Min(Len(l.records1), Len(l.records2))
    THEN [l EXCEPT !.i = @ + 1]
    ELSE [l EXCEPT !.pc = "recv", !.i = 1, !.records1 = <<>>, !.records2 = <<>>]

\* Move on to the next pair of the zip, or back to rx.recv().
Advanced(l) ==
    IF l.i < Min(Len(l.records1), Len(l.records2))
    THEN [l EXCEPT !.i = @ + 1]
    ELSE [l EXCEPT !.pc = "recv", !.i = 1, !.records1 = <<>>, !.records2 = <<>>]

\* Mutant of Admitted: the membership test negated.
AdmittedNegated(record1) == record1.id \notin cfg.id_sets

\* An empty selection set taken as "no filter": every read is admitted.
AdmittedWhenEmpty(record1) == cfg.id_sets = {} \/ record1.id \in cfg.id_sets

\* The membership test of the filter.
Admitted(record1) == record1.id \in cfg.id_sets

\* Mutant of PairMismatch: the ids are compared for selected reads only.
PairMismatchOfAdmitted(record1, record2) ==
    Admitted(record1) /\ record1.id # record2.id

\* The pair-consistency test of the per-record loop.
PairMismatch(record1, record2) == record1.id # record2.id

\* Mutant of FinalFlush: the closure returns without the shutdown flush.
FinalFlushNever(l) == FALSE

\* `if !records1_pool.is_empty()` after the receive loop.
FinalFlush(l) == l.records1_pool # <<>>

WorkerRecv(w) ==
    LET t == parser_handle(w)
    IN  /\ Ready(t)
        /\ wk[w].pc = "recv"
        /\ \/ /\ chan["reader"] # <<>>
              /\ chan' = Dequeue("reader")
              /\ LET m == Head(chan["reader"]).msg
                 IN  wk' = [wk EXCEPT ![w] =
                        IF Min(Len(m[1]), Len(m[2])) = 0
                        THEN @
                        ELSE [@ EXCEPT !.pc = "zip", !.i = 1, !.packs = 0,
                                       !.records1 = m[1], !.records2 = m[2]]]
              /\ UNCHANGED res
           \/ /\ chan["reader"] = <<>>
              /\ NoSender("reader")
              /\ IF ~FinalFlush(wk[w])
                 THEN /\ res' = Return(t, Ok)
                      /\ UNCHANGED wk
                 ELSE /\ wk' = [wk EXCEPT ![w].pc = "flush"]
                      /\ UNCHANGED res
              /\ UNCHANGED chan
        /\ UNCHANGED <<varsK, cfg, input1, input2, rpos, coll, disp, out1, out2, result>>

\* One iteration of `for (record1, record2) in zip(records1, records2)`.
WorkerRecord(w) ==
    LET t == parser_handle(w)
        l == wk[w]
        record1 == l.records1[l.i]
        record2 == l.records2[l.i]
    IN  /\ Ready(t)
        /\ l.pc = "zip"
        /\ IF PairMismatch(record1, record2)
           THEN /\ res' = Return(t, FastqPairError(record1.id, record2.id))
                /\ UNCHANGED <<chan, wk>>
           ELSE IF ~Admitted(record1)
           THEN /\ wk' = [wk EXCEPT ![w] = Advanced(l)]
                /\ UNCHANGED <<chan, res>>
           ELSE IF ~NeedFlush(l, record1, record2)
           THEN /\ wk' = [wk EXCEPT ![w] = Advanced(Extended(l, record1, record2))]
                /\ UNCHANGED <<chan, res>>
           ELSE \/ /\ NoReceiver("writer")
                   /\ res' = Return(t, Err("ParserSendError"))
                   /\ UNCHANGED <<chan, wk>>
                \/ /\ ~NoReceiver("writer")
                   /\ HasRoom("writer")
                   /\ chan' = Enqueue(t, "writer", <<FlushPack1(l), FlushPack2(l)>>)
                   /\ wk' = [wk EXCEPT ![w] =
                                [Advanced(Extended(Swapped(l), record1, record2))
                                    EXCEPT !.packs = @ + 1]]
                   /\ UNCHANGED res
        /\ UNCHANGED <<varsK, cfg, input1, input2, rpos, coll, disp, out1, out2, result>>

\* After the input queue closed (rx.recv() failed in WorkerRecv, which
\* also returns Ok when records1_pool is empty): records1_pool is not
\* empty, the last packs are sent and the closure returns.
WorkerFlush(w) ==
    LET t == parser_handle(w)
        l == wk[w]
    IN  /\ Ready(t)
        /\ l.pc = "flush"
        /\ \/ /\ NoReceiver("writer")
              /\ res' = Return(t, Err("ParserSendError"))
              /\ UNCHANGED <<chan, wk>>
           \/ /\ ~NoReceiver("writer")
              /\ HasRoom("writer")
              /\ chan' = Enqueue(t, "writer", <<FlushPack1(l), FlushPack2(l)>>)
              /\ wk' = [wk EXCEPT ![w].pc = "end"]
              /\ res' = IF Rendezvous THEN res ELSE Return(t, Ok)
        /\ UNCHANGED <<varsK, cfg, input1, input2, rpos, coll, disp, out1, out2, result>>

\* The last send was on a zero-capacity channel and has been taken.
WorkerEnd(w) ==
    LET t == parser_handle(w)
    IN  /\ Ready(t)
        /\ wk[w].pc = "end"
        /\ res' = Return(t, Ok)
        /\ UNCHANGED <<varsK, cfg, input1, input2, chan, rpos, coll, wk, disp, out1, out2, result>>

\* ------------------------------------------------------------------------
\* Writer dispatch
\* ------------------------------------------------------------------------
\* Where the dispatcher goes after taking (records1, records2), or after
\* having sent side `sent` of it.
DispNext(records1, records2, sent) ==
    IF sent < 1 /\ records1 # None THEN "send1"
    ELSE IF sent < 2 /\ records2 # None THEN "send2"
    ELSE "recv"

DispRecv ==
    /\ Ready(writer_handle)
    /\ disp.pc = "recv"
    /\ \/ /\ chan["writer"] # <<>>
          /\ chan' = Dequeue("writer")
          /\ LET m == Head(chan["writer"]).msg
             IN  disp' = [pc |-> DispNext(m[1], m[2], 0),
                          records1 |-> m[1], records2 |-> m[2]]
          /\ UNCHANGED res
       \/ /\ chan["writer"] = <<>>
          /\ NoSender("writer")
          /\ res' = Return(writer_handle, Ok)
          /\ UNCHANGED <<chan, disp>>
    /\ UNCHANGED <<varsK, cfg, input1, input2, rpos, coll, wk, out1, out2, result>>

DispSend1 ==
    /\ Ready(writer_handle)
    /\ disp.pc = "send1"
    /\ \/ /\ NoReceiver("writer1")
          /\ res' = Return(writer_handle, Err("DispatchSendError"))
          /\ UNCHANGED <<chan, disp>>
       \/ /\ ~NoReceiver("writer1")
          /\ HasRoom("writer1")
          /\ chan' = Enqueue(writer_handle, "writer1", disp.records1[1])
          /\ disp' = [disp EXCEPT !.pc = DispNext(disp.records1, disp.records2, 1)]
          /\ UNCHANGED res
    /\ UNCHANGED <<varsK, cfg, input1, input2, rpos, coll, wk, out1, out2, result>>

DispSend2 ==
    /\ Ready(writer_handle)
    /\ disp.pc = "send2"
    /\ \/ /\ NoReceiver("writer2")
          /\ res' = Return(writer_handle, Err("DispatchSendError"))
          /\ UNCHANGED <<chan, disp>>
       \/ /\ ~NoReceiver("writer2")
          /\ HasRoom("writer2")
          /\ chan' = Enqueue(writer_handle, "writer2", disp.records2[1])
          /\ disp' = [disp EXCEPT !.pc = DispNext(disp.records1, disp.records2, 2)]
          /\ UNCHANGED res
    /\ UNCHANGED <<varsK, cfg, input1, input2, rpos, coll, wk, out1, out2, result>>

\* ------------------------------------------------------------------------
\* Writers
\* ------------------------------------------------------------------------
\* new_writer(..)?, write_all(..)? or flush()? fails: the closure returns
\* the error.
Writer1Fail ==
    /\ Ready(writer1_handle)
    /\ writer1_handle \in cfg.io_error
    /\ res' = Return(writer1_handle, Err("Writer1IoError"))
    /\ UNCHANGED <<varsK, cfg, input1, input2, chan, rpos, coll, wk, disp, out1, out2, result>>

Writer2Fail ==
    /\ Ready(writer2_handle)
    /\ writer2_handle \in cfg.io_error
    /\ res' = Return(writer2_handle, Err("Writer2IoError"))
    /\ UNCHANGED <<varsK, cfg, input1, input2, chan, rpos, coll, wk, disp, out1, out2, result>>

\* `for chunk in writer1_rx { writer.write_all(&chunk) }`, then flush.
Writer1 ==
    /\ Ready(writer1_handle)
    /\ \/ /\ chan["writer1"] # <<>>
          /\ chan' = Dequeue("writer1")
          /\ out1' = Append(out1, Head(chan["writer1"]).msg)
          /\ UNCHANGED res
       \/ /\ chan["writer1"] = <<>>
          /\ NoSender("writer1")
          /\ res' = Return(writer1_handle, Ok)
          /\ UNCHANGED <<chan, out1>>
    /\ UNCHANGED <<varsK, cfg, input1, input2, rpos, coll, wk, disp, out2, result>>

Writer2 ==
    /\ Ready(writer2_handle)
    /\ \/ /\ chan["writer2"] # <<>>
          /\ chan' = Dequeue("writer2")
          /\ out2' = Append(out2, Head(chan["writer2"]).msg)
          /\ UNCHANGED res
       \/ /\ chan["writer2"] = <<>>
          /\ NoSender("writer2")
          /\ res' = Return(writer2_handle, Ok)
          /\ UNCHANGED <<chan, out2>>
    /\ UNCHANGED <<varsK, cfg, input1, input2, rpos, coll, wk, disp, out1, result>>

\* ------------------------------------------------------------------------
\* The main thread: join the handles in order, return the first error
\* ------------------------------------------------------------------------
JoinOrder ==
    <<writer1_handle, writer2_handle, writer_handle>>
        \o parser_handles
        \o <<reader_handle, reader1_handle, reader2_handle>>

\* Mutant of FirstError: the result of the thread joined last is dropped.
RECURSIVE FirstErrorButLast(_)
FirstErrorButLast(handles) ==
    IF Len(handles) <= 1 THEN Ok
    ELSE IF res[Head(handles)].st = "Err" THEN res[Head(handles)]
    ELSE FirstErrorButLast(Tail(handles))

\* The `??` on each join, in order: the first error ends the closure.
RECURSIVE FirstError(_)
FirstError(handles) ==
    IF handles = <<>> THEN Ok
    ELSE IF res[Head(handles)].st = "Err" THEN res[Head(handles)]
    ELSE FirstError(Tail(handles))

\* The scope returns once every thread it spawned has finished.
MainJoin ==
    /\ result = Running
    /\ \A t \in Threads : res[t] # Unspawned /\ ~Alive(t)
    /\ result' = FirstError(JoinOrder)
    /\ UNCHANGED <<varsK, cfg, input1, input2, chan, res, rpos, coll, wk, disp, out1, out2>>

\* ------------------------------------------------------------------------
\* Inputs and initial state of parse_paired
\* ------------------------------------------------------------------------
\* Read ids: the record at position j of a file has id j; id 0 is the id of
\* the records of input 2 that do not match their mates.
Ids == 0 .. Max(MaxRecs, MaxRecsOne)

\* Input 1 with n records.
Reads1(n) == [j \in 1 .. n |-> FastqRecord(j, 1, j)]
\* Input 2 with n records, those at the positions of bad with another id.
Reads2(n, bad) == [j \in 1 .. n |-> FastqRecord(IF j \in bad THEN 0 ELSE j, 2, j)]

\* The ids that occur in the inputs.
IdsOf(n1, n2, bad) == (1 .. n1) \cup ((1 .. n2) \ bad) \cup {0 : j \in bad}

\* (output1_path, output2_path), each an Option of the path's extension.
OutputPaths ==
    {<<Some("fastq"), Some("fastq")>>, <<Some("gz"), Some("fastq")>>,
     <<Some("fq"), Some("GZ")>>, <<None, Some("fq")>>, <<Some("gz"), None>>,
     <<None, None>>}

ChunkSizes == {2 ^ k : k \in 0 .. MaxChunkLog}
QueueDepths == {None} \cup {Some(n) : n \in 0 .. MaxQueue}

\* The levels CompressionLvl::new accepts, and the levels of the explored
\* calls: the accepted ones and one on either side of them.
CompressionLevels == 0 .. 12
Levels == {-1, 0, 6, 12, 13}
DefaultLevel == 6

\* The files of a call whose I/O fails (open, read, decode, format, write or
\* flush), named by the threads that own the files.
NoIoError == {}

\* The arguments of parse_paired, with has_writer{1,2} and gzip{1,2} as
\* the function derives them from the output paths, and the files whose
\* I/O fails.
Config(ids, paths, b, c, q, n, level, io) ==
    [id_sets |-> ids,
     compression_level |-> level,
     io_error |-> io,
     has_writer1 |-> paths[1] # None,
     has_writer2 |-> paths[2] # None,
     gzip1 |-> paths[1] # None /\ gz_compressed(paths[1][1]),
     gzip2 |-> paths[2] # None /\ gz_compressed(paths[2][1]),
     batch_size |-> b,
     chunk_bytes |-> c,
     nqueue |-> q,
     threads |-> n]

InitThreads(c) ==
    [t \in {writer1_handle, writer2_handle, writer_handle, reader_handle,
            reader1_handle, reader2_handle}
           \cup {parser_handle(w) : w \in 1 .. c.threads} |->
        IF \/ t = writer1_handle /\ ~c.has_writer1
           \/ t = writer2_handle /\ ~c.has_writer2
        THEN Absent ELSE Running]

\* A validation that only takes place when an output is compressed.
ValidLevelWhenGzip(level) ==
    level \in CompressionLevels \/ ~(cfg.gzip1 \/ cfg.gzip2)

\* CompressionLvl::new(compression_level): the level is one the library
\* accepts.
ValidLevel(level) == level \in CompressionLevels

\* The entry of parse_paired: an invalid compression level is returned as
\* an error at once; otherwise the scope is entered and the threads are
\* spawned.
Enter ==
    /\ result = Running
    /\ \A t \in Threads : res[t] = Unspawned
    /\ IF ValidLevel(cfg.compression_level)
       THEN /\ res' = InitThreads(cfg)
            /\ UNCHANGED result
       ELSE /\ result' = Err("InvalidCompressionLevel")
            /\ UNCHANGED res
    /\ UNCHANGED <<varsK, cfg, input1, input2, chan, rpos, coll, wk, disp, out1, out2>>

InitWorker(c) ==
    [pc |-> "recv", records1 |-> <<>>, records2 |-> <<>>, i |-> 1, packs |-> 0,
     done |-> <<>>, since |-> 0,
     records1_pool |-> <<>>, cap1 |-> c.chunk_bytes,
     records2_pool |-> <<>>, cap2 |-> c.chunk_bytes]

InitF(c, n1, n2, bad) ==
    /\ cfg = c
    /\ input1 = Reads1(n1)
    /\ input2 = Reads2(n2, bad)
    /\ chan = [ch \in Channels |-> <<>>]
    /\ res = [t \in DOMAIN InitThreads(c) |-> Unspawned]
    /\ rpos = [i \in 1 .. 2 |-> 0]
    /\ coll = [pc |-> "recv1", rec1 |-> None, rec2 |-> None]
    /\ wk = [w \in 1 .. c.threads |-> InitWorker(c)]
    /\ disp = [pc |-> "recv", records1 |-> None, records2 |-> None]
    /\ out1 = <<>>
    /\ out2 = <<>>
    /\ result = Running
    /\ report = <<>>
    /\ kpos = 0
    /\ kwk = <<>>
    /\ drained = <<>>
    /\ selection = {}

\* Well-formed runs: two inputs of n records with pairwise equal ids, any
\* selection among their ids, every output layout.
InitWellFormed ==
    \E th \in 1 .. MaxThreads :
    \E n \in 0 .. (IF th = 1 THEN MaxRecsOne ELSE MaxRecs), paths \in OutputPaths :
    \E ids \in SUBSET (1 .. n), b \in 1 .. MaxBatch, c \in ChunkSizes,
       q \in QueueDepths :
        InitF(Config(ids, paths, b, c, q, th, DefaultLevel, NoIoError), n, n, {})

\* Ill-formed runs: inputs of different record counts, or a pair whose ids
\* differ, or both.
InitIllFormed ==
    \E n1 \in 0 .. MaxRecs, n2 \in 0 .. MaxRecs :
    \E bad \in SUBSET (1 .. n2) :
    \E ids \in SUBSET IdsOf(n1, n2, bad), b \in 1 .. MaxBatch, c \in ChunkSizes,
       q \in QueueDepths, th \in 1 .. MaxThreads :
        /\ ~(n1 = n2 /\ bad = {})
        /\ InitF(Config(ids, <<Some("fastq"), Some("fastq")>>, b, c, q, th,
                        DefaultLevel, NoIoError), n1, n2, bad)

\* Well-formed runs that select every read or none, in every layout of the
\* outputs.
InitFairWellFormed ==
    \E th \in 1 .. MaxThreads, n \in 0 .. MaxRecs :
    \E paths \in {<<Some("fastq"), Some("fastq")>>, <<None, Some("fq")>>,
                  <<Some("gz"), None>>, <<None, None>>} :
    \E ids \in {{}, 1 .. n}, b \in 1 .. MaxBatch, c \in {1, 2 ^ MaxChunkLog},
       q \in QueueDepths :
        InitF(Config(ids, paths, b, c, q, th, DefaultLevel, NoIoError), n, n, {})

\* Ill-formed runs that select every read.
InitFairIllFormed ==
    \E n1 \in 0 .. MaxRecs, n2 \in 0 .. MaxRecs :
    \E bad \in SUBSET (1 .. n2) :
    \E b \in 1 .. MaxBatch, q \in QueueDepths, th \in 1 .. MaxThreads :
        /\ ~(n1 = n2 /\ bad = {})
        /\ InitF(Config(IdsOf(n1, n2, bad), <<Some("fastq"), Some("fastq")>>, b, 1, q, th,
                        DefaultLevel, NoIoError), n1, n2, bad)

\* Runs over every compression level, the rejected ones included, with and
\* without a gzip output.
InitLevels ==
    \E level \in Levels \ {DefaultLevel}, n \in 0 .. 1, q \in QueueDepths :
    \E paths \in {<<Some("fastq"), Some("fastq")>>, <<Some("gz"), None>>} :
        InitF(Config(1 .. n, paths, 1, 1, q, 1, level, NoIoError), n, n, {})

\* Runs in which the I/O of one file fails: well-formed inputs, every read
\* selected.
InitIoError ==
    \E n \in 1 .. MaxRecs, b \in 1 .. MaxBatch, q \in QueueDepths,
       th \in 1 .. MaxThreads :
    \E io \in {{reader1_handle}, {reader2_handle}, {writer1_handle}, {writer2_handle},
               {reader1_handle, reader2_handle}} :
        InitF(Config(1 .. n, <<Some("fastq"), Some("gz")>>, b, 1, q, th,
                     DefaultLevel, io), n, n, {})

\* ========================================================================
\* parse_koutput: the classification parser
\* ========================================================================
\* Bytes are one-character strings, byte strings are sequences of them.
TAB == "\t"
KOUTPUT_TAXID_PREFIX == <<"(", "t", "a", "x", "i", "d", " ">>
KOUTPUT_TAXID_SUFFIX == ")"

\* The least offset of a set of offsets, as an Option.
First(offsets) ==
    IF offsets = {} THEN None
    ELSE Some(CHOOSE k \in offsets : \A j \in offsets : k <= j)

\* memchr(needle, haystack): the offset of the first needle, as an Option.
memchr(needle, haystack) ==
    [h \in {haystack} |->
        First({k \in 0 .. Len(h) - 1 : h[k + 1] = needle})][haystack]

\* line[from ..] and line[from .. to], with the offsets of the source
\* (from 0, `to` excluded).
SliceFrom(bytes, from) == SubSeq(bytes, from + 1, Len(bytes))
Slice(bytes, from, to) == SubSeq(bytes, from + 1, to)

\* Finder::find(haystack): the offset of the first occurrence of the
\* pattern, as an Option.
StartsWith(bytes, pattern) ==
    /\ Len(pattern) <= Len(bytes)
    /\ SubSeq(bytes, 1, Len(pattern)) = pattern

Find(pattern, haystack) ==
    [h \in {haystack} |->
        First({k \in 0 .. Len(h) : StartsWith(SliceFrom(h, k), pattern)})][haystack]

\* AhoCorasick::find(lca).is_some(): some pattern occurs in the haystack.
AhoMatches(patterns, haystack) ==
    \E pattern \in patterns : Find(pattern, haystack) # None

\* Mutant of TaxidOfField: a field whose parenthesized id is missing or
\* not included falls through to the test of the whole field.
TaxidOfFieldFallsThrough(field) ==
    LET found == Find(KOUTPUT_TAXID_PREFIX, field)
        start == found[1] + Len(KOUTPUT_TAXID_PREFIX)
        end == memchr(KOUTPUT_TAXID_SUFFIX, SliceFrom(field, start))
    IN  IF /\ found # None
           /\ end # None
           /\ Slice(field, start, start + end[1]) \in cfg.include_sets
        THEN Some(Slice(field, start, start + end[1]))
        ELSE IF field \in cfg.include_sets THEN Some(field) ELSE None

\* Field 2 of a classified line: the taxid that passes the include set, as
\* an Option (None: skip the line).
TaxidOfField(field) ==
    LET found == Find(KOUTPUT_TAXID_PREFIX, field)
    IN  IF found # None
        THEN LET start == found[1] + Len(KOUTPUT_TAXID_PREFIX)
                 end == memchr(KOUTPUT_TAXID_SUFFIX, SliceFrom(field, start))
             IN  IF end # None
                 THEN LET id == Slice(field, start, start + end[1])
                      IN  IF id \in cfg.include_sets THEN Some(id) ELSE None
                 ELSE None
        ELSE IF field \in cfg.include_sets THEN Some(field) ELSE None

\* Field 3 and what follows it: the LCA field is cut at the next tab or at
\* the end of the line, tested against the exclusion patterns, and the
\* tuple is built when the read id and the taxid were saved.
\* Mutant of LcaOf: the LCA field runs to the end of the line.
LcaOfRest(line, field_start) == SliceFrom(line, field_start)

LcaOf(line, field_start) ==
    LET pos == memchr(TAB, SliceFrom(line, field_start))
    IN  IF pos # None
        THEN Slice(line, field_start, field_start + pos[1])
        ELSE SliceFrom(line, field_start)

\* Mutant of Excluded: a line is dropped whenever an automaton is given.
ExcludedWhenGiven(lca) == cfg.exclude_aho # None

Excluded(lca) ==
    cfg.exclude_aho # None /\ AhoMatches(cfg.exclude_aho[1], lca)

\* Mutant of Tuple: the length is taken from the slice of the LCA field.
TupleLengthOfLca(sequence_id, length, taxid, lca) ==
    [k |-> sequence_id, v |-> <<lca, taxid, lca>>]

Tuple(sequence_id, length, taxid, lca) ==
    [k |-> sequence_id, v |-> <<length, taxid, lca>>]

\* The `while let Some(tab_pos) = memchr(b'\t', &line[field_start ..])`
\* loop over one line, from the values of its arguments: the tuple sent
\* for the line, as an Option.
RECURSIVE FieldLoop(_, _, _, _, _)
FieldLoop(ln, start, index, id, tx) ==
    [line \in {ln}, field_start \in {start}, field_index \in {index},
     sequence_id \in {id}, taxid \in {tx} |->
        LET tab_pos == memchr(TAB, SliceFrom(line, field_start))
        IN  IF tab_pos = None THEN None
            ELSE
            LET field == Slice(line, field_start, field_start + tab_pos[1])
                next == field_start + tab_pos[1] + 1
            IN  CASE field_index = 0 ->
                        IF Len(field) # 1 \/ field[1] # "C" THEN None
                        ELSE FieldLoop(line, next, 1, sequence_id, taxid)
                  [] field_index = 1 ->
                        FieldLoop(line, next, 2, Some(field), taxid)
                  [] field_index = 2 ->
                        IF TaxidOfField(field) = None THEN None
                        ELSE FieldLoop(line, next, 3, sequence_id, TaxidOfField(field))
                  [] OTHER ->
                        LET lca == LcaOf(line, next)
                        IN  IF Excluded(lca) THEN None
                            ELSE IF sequence_id # None /\ taxid # None
                            THEN Some(Tuple(sequence_id[1], field, taxid[1], lca))
                            ELSE None
    ][ln, start, index, id, tx]

ParseLine(line) == FieldLoop(line, 0, 0, None, None)


\* ------------------------------------------------------------------------
\* The threads of parse_koutput
\* ------------------------------------------------------------------------
\* LineReader and BatchSender of the reader thread: the next batch is the
\* next batch_size lines, or the shorter rest of the report.
KNextBatch == SubSeq(report, kpos + 1, Min(kpos + cfg.batch_size, Len(report)))

KReaderSend ==
    /\ Ready(kreader_handle)
    /\ kpos < Len(report)
    /\ \/ /\ NoReceiver("kreader")
          /\ res' = Return(kreader_handle, Err("KReaderSendError"))
          /\ UNCHANGED <<chan, kpos>>
       \/ /\ ~NoReceiver("kreader")
          /\ HasRoom("kreader")
          /\ chan' = Enqueue(kreader_handle, "kreader", KNextBatch)
          /\ kpos' = kpos + Len(KNextBatch)
          /\ res' = IF kpos' = Len(report) /\ ~Rendezvous
                    THEN Return(kreader_handle, Ok) ELSE res
    /\ UNCHANGED <<cfg, input1, input2, rpos, coll, wk, disp, out1, out2, result>>
    /\ UNCHANGED <<report, kwk, drained, selection>>

KReaderFinish ==
    /\ Ready(kreader_handle)
    /\ kpos = Len(report)
    /\ res' = Return(kreader_handle, Ok)
    /\ UNCHANGED <<cfg, input1, input2, chan, rpos, coll, wk, disp, out1, out2, result>>
    /\ UNCHANGED varsK

\* new_reader(..)? or read_line()? fails: the closure returns the error.
\* The lines buffered in the BatchSender are not sent.
KReaderFail ==
    /\ Ready(kreader_handle)
    /\ kreader_handle \in cfg.io_error
    /\ res' = Return(kreader_handle, Err("KReaderReadError"))
    /\ UNCHANGED <<cfg, input1, input2, chan, rpos, coll, wk, disp, out1, out2, result>>
    /\ UNCHANGED varsK

\* BatchSender::send of a parser worker: buffer the tuple, and hand the
\* buffer to koutput_tx once it holds batch_size tuples.  The result is
\* <<buffer left, batches sent>>.
BatchSend(buf, tuple) ==
    IF Len(buf) + 1 >= cfg.batch_size
    THEN <<<<>>, <<Append(buf, tuple)>>>>
    ELSE <<Append(buf, tuple), <<>>>>

\* BatchSender::flush: send what is buffered, if anything.
BatchFlush(buf) == IF buf = <<>> THEN <<>> ELSE <<buf>>

RECURSIVE EnqueueAll(_, _, _, _)
EnqueueAll(q, t, ch, batches) ==
    IF batches = <<>> THEN q
    ELSE EnqueueAll([q EXCEPT ![ch] = Append(@, [src |-> t, msg |-> Head(batches)])],
                    t, ch, Tail(batches))

\* rx.recv(): the next batch of lines; or, the channel closed, flush and
\* return.
KWorkerRecv(w) ==
    LET t == kparser_handle(w)
    IN  /\ Ready(t)
        /\ kwk[w].pc = "recv"
        /\ \/ /\ chan["kreader"] # <<>>
              /\ LET lines == Head(chan["kreader"]).msg
                 IN  kwk' = [kwk EXCEPT ![w].lines = lines,
                                        ![w].pc = IF lines = <<>> THEN "recv" ELSE "line"]
              /\ chan' = Dequeue("kreader")
              /\ UNCHANGED res
           \/ /\ chan["kreader"] = <<>>
              /\ NoSender("kreader")
              /\ BatchFlush(kwk[w].buf) # <<>> => HasRoom("koutput")
              /\ chan' = EnqueueAll(chan, t, "koutput", BatchFlush(kwk[w].buf))
              /\ kwk' = [kwk EXCEPT ![w].buf = <<>>]
              /\ res' = Return(t, Ok)
        /\ UNCHANGED <<cfg, input1, input2, rpos, coll, wk, disp, out1, out2, result>>
        /\ UNCHANGED <<report, kpos, drained, selection>>

\* One iteration of `'chunk_loop: for line in lines`.
KWorkerLine(w) ==
    LET t == kparser_handle(w)
        l == kwk[w]
    IN  /\ Ready(t)
        /\ l.pc = "line"
        /\ \E parsed \in {ParseLine(Head(l.lines))} :
           \E sent \in {IF parsed = None THEN <<l.buf, <<>>>>
                        ELSE BatchSend(l.buf, parsed[1])} :
              /\ sent[2] # <<>> => HasRoom("koutput")
              /\ chan' = EnqueueAll(chan, t, "koutput", sent[2])
              /\ kwk' = [kwk EXCEPT
                            ![w].buf = sent[1],
                            ![w].last = Some([line |-> Head(l.lines), sent |-> parsed]),
                            ![w].lines = Tail(l.lines),
                            ![w].pc = IF Tail(l.lines) = <<>> THEN "recv" ELSE "line"]
        /\ UNCHANGED <<cfg, input1, input2, res, rpos, coll, wk, disp, out1, out2, result>>
        /\ UNCHANGED <<report, kpos, drained, selection>>

\* Mutant of Flatten: the tuples of the first queued batch only.
FlattenFirst(batches) == IF batches = <<>> THEN <<>> ELSE Head(batches)

\* koutput_rx.into_iter().flatten(): the tuples of the queued batches.
RECURSIVE Flatten(_)
Flatten(batches) ==
    IF batches = <<>> THEN <<>> ELSE Head(batches) \o Flatten(Tail(batches))

\* Mutant of Insert: the first entry of a key is kept.
InsertIfAbsent(map, tuple) ==
    IF \E e \in map : e.k = tuple.k THEN map ELSE map \cup {tuple}

\* HashMap insert: the entry replaces the entry of the same key.
Insert(map, tuple) == {e \in map : e.k # tuple.k} \cup {tuple}

\* collect::<HashMap<..>>(): insert the tuples in order.
RECURSIVE Collect(_, _)
Collect(map, tuples) ==
    IF tuples = <<>> THEN map
    ELSE Collect(Insert(map, Head(tuples)), Tail(tuples))

KJoinOrder == kparser_handles \o <<kreader_handle>>

\* The main thread of parse_koutput: join the parsers, then the reader,
\* then drain koutput_rx into the map.
KMainJoin ==
    /\ result = Running
    /\ \A t \in KThreads : ~Alive(t)
    /\ result' = FirstError(KJoinOrder)
    /\ IF result' = Ok
       THEN /\ drained' = Flatten(Msgs(chan["koutput"]))
            /\ selection' = Collect({}, drained')
            /\ chan' = [chan EXCEPT !["koutput"] = <<>>]
       ELSE UNCHANGED <<chan, drained, selection>>
    /\ UNCHANGED <<cfg, input1, input2, res, rpos, coll, wk, disp, out1, out2>>
    /\ UNCHANGED <<report, kpos, kwk>>

\* ------------------------------------------------------------------------
\* Inputs and initial state of parse_koutput
\* ------------------------------------------------------------------------
RECURSIVE JoinTabs(_)
\* The fields, a tab between each two of them.
JoinTabs(fields) ==
    IF Len(fields) = 0 THEN <<>>
    ELSE IF Len(fields) = 1 THEN fields[1]
    ELSE fields[1] \o <<TAB>> \o JoinTabs(Tail(fields))

StatusFields == {<<"C">>, <<"U">>, <<"C", "C">>, <<>>}
IdFields == {<<"a">>, <<"b">>}
Taxid5 == <<"5">>
Taxid9 == <<"9">>
Named(name, id) == name \o KOUTPUT_TAXID_PREFIX \o id \o <<KOUTPUT_TAXID_SUFFIX>>
Unclosed(name, id) == name \o KOUTPUT_TAXID_PREFIX \o id
TaxidFields ==
    {Taxid5, Taxid9, Named(<<"E", " ">>, Taxid5), Named(<<>>, Taxid9),
     Unclosed(<<"E", " ">>, Taxid5), Named(<<"5", " ">>, Taxid9) \o <<"5", ")">>}
LengthFields == {<<"7">>, <<"1", "5">>}
LcaFields == {<<"5", ":", "2">>, <<"9", ":", "1", " ", "5", ":", "1">>, <<>>}

\* Lines of one to six fields.
FiveFields ==
    {<<s, i, t, n, l>> :
        s \in StatusFields, i \in IdFields, t \in TaxidFields,
        n \in LengthFields, l \in LcaFields}
AllLines ==
    {JoinTabs(SubSeq(f, 1, k)) : f \in FiveFields, k \in 1 .. 5}
    \cup {JoinTabs(f \o <<<<"x">>>>) : f \in FiveFields}

\* The lines of the reports of several lines: two classified lines of the
\* same read with different values, one of another read whose LCA field
\* names taxon 9, one unclassified line.
CoreLines ==
    {JoinTabs(<<<<"C">>, <<"a">>, Taxid5, <<"7">>, <<"5", ":", "2">>>>),
     JoinTabs(<<<<"C">>, <<"a">>, Named(<<"E", " ">>, Taxid5), <<"1", "5">>,
                <<"5", ":", "2">>, <<"x">>>>),
     JoinTabs(<<<<"C">>, <<"b">>, Taxid9, <<"7">>, <<"9", ":", "1">>>>),
     JoinTabs(<<<<"U">>, <<"b">>, Taxid5, <<"7">>, <<"5", ":", "2">>>>)}

Reports(lines, n) == UNION {[1 .. m -> lines] : m \in 0 .. n}

\* The include sets: none, one or both taxa, and a set that holds whole
\* parenthesized fields but not taxon 9.
IncludeSets ==
    {{}, {Taxid5}, {Taxid5, Taxid9},
     {Taxid5, Named(<<>>, Taxid9), Unclosed(<<"E", " ">>, Taxid5)}}

\* The exclusion automata: none, or one built from these patterns.
ExcludeAhos == {None, Some({<<"9", ":">>}), Some({<<"9", ":">>, <<"5", ":", "2">>})}

KConfig(include, exclude, b, q, n, io) ==
    [include_sets |-> include, exclude_aho |-> exclude, io_error |-> io,
     batch_size |-> b, nqueue |-> q, threads |-> n]

InitK(c, lines) ==
    /\ cfg = c
    /\ report = lines
    /\ chan = [ch \in KChannels |-> <<>>]
    /\ res = [t \in {kreader_handle} \cup {kparser_handle(w) : w \in 1 .. c.threads} |->
                Running]
    /\ kpos = 0
    /\ kwk = [w \in 1 .. c.threads |-> [pc |-> "recv", lines |-> <<>>, buf |-> <<>>, last |-> None]]
    /\ drained = <<>>
    /\ selection = {}
    /\ result = Running
    /\ input1 = <<>>
    /\ input2 = <<>>
    /\ rpos = <<>>
    /\ coll = <<>>
    /\ wk = <<>>
    /\ disp = <<>>
    /\ out1 = <<>>
    /\ out2 = <<>>

\* Reports of one line, of every shape, under every filter.
InitOneLine ==
    \E line \in AllLines, include \in IncludeSets, exclude \in ExcludeAhos :
        InitK(KConfig(include, exclude, 1, Some(1), 1, NoIoError), <<line>>)

\* Reports of several lines under every schedule.
InitReports ==
    \E lines \in Reports(CoreLines, MaxLines) :
    \E filter \in {<<{Taxid5, Taxid9}, None>>, <<{Taxid5}, Some({<<"9", ":">>})>>},
       b \in 1 .. MaxBatch, q \in QueueDepths, th \in 1 .. MaxThreads :
        InitK(KConfig(filter[1], filter[2], b, q, th, NoIoError), lines)

\* ========================================================================
\* Specifications
\* ========================================================================
NextF ==
    \/ Enter
    \/ \E i \in 1 .. 2 : ReaderSend(i)
    \/ \E i \in 1 .. 2 : ReaderFail(i)
    \/ \E i \in 1 .. 2 : ReaderFinish(i)
    \/ \E t \in DOMAIN res : SendDisconnected(t)
    \/ CollRecv1
    \/ CollRecv2
    \/ CollSend
    \/ \E w \in Workers : WorkerRecv(w)
    \/ \E w \in Workers : WorkerRecord(w)
    \/ \E w \in Workers : WorkerFlush(w)
    \/ \E w \in Workers : WorkerEnd(w)
    \/ DispRecv
    \/ DispSend1
    \/ DispSend2
    \/ Writer1
    \/ Writer2
    \/ Writer1Fail
    \/ Writer2Fail
    \/ MainJoin

NextK ==
    \/ KReaderSend
    \/ KReaderFinish
    \/ \E w \in Workers : KWorkerRecv(w)
    \/ \E w \in Workers : KWorkerLine(w)
    \/ KMainJoin

\* parse_paired on every input of the bounds.
Init == InitWellFormed \/ InitIllFormed \/ InitLevels \/ InitIoError
Next == NextF
Spec == Init /\ [][Next]_vars

\* parse_paired under a fair scheduler: a thread that can take a step is
\* not postponed forever.  The calls explored under fairness select every
\* read or none, with the smallest or the largest chunk.
InitFair == InitFairWellFormed \/ InitFairIllFormed \/ InitLevels \/ InitIoError
FairSpec == InitFair /\ [][Next]_vars /\ WF_vars(Next)

\* parse_paired on the ill-formed inputs alone.
SpecIllFormed == InitIllFormed /\ [][NextF]_vars

\* parse_koutput.
InitKoutput == InitOneLine \/ InitReports
SpecKoutput == InitKoutput /\ [][NextK]_vars

\* Either entry point is called, and the file operations of the call may
\* fail: parse_paired as under FairSpec, parse_koutput on the reports of
\* several lines with and without a failure of its reader.
InitKIoError ==
    \E lines \in Reports(CoreLines, MaxLines) :
    \E io \in {NoIoError, {kreader_handle}},
       b \in 1 .. MaxBatch, q \in QueueDepths, th \in 1 .. MaxThreads :
        InitK(KConfig({Taxid5, Taxid9}, None, b, q, th, io), lines)
IsPaired == reader_handle \in DOMAIN res
IsKoutput == kreader_handle \in DOMAIN res
InitCalls == InitFair \/ InitKIoError
NextCalls ==
    \/ IsPaired /\ Enter
    \/ IsPaired /\ \E i \in 1 .. 2 : ReaderSend(i)
    \/ IsPaired /\ \E i \in 1 .. 2 : ReaderFail(i)
    \/ IsPaired /\ \E i \in 1 .. 2 : ReaderFinish(i)
    \/ IsPaired /\ \E t \in DOMAIN res : SendDisconnected(t)
    \/ IsPaired /\ CollRecv1
    \/ IsPaired /\ CollRecv2
    \/ IsPaired /\ CollSend
    \/ IsPaired /\ \E w \in Workers : WorkerRecv(w)
    \/ IsPaired /\ \E w \in Workers : WorkerRecord(w)
    \/ IsPaired /\ \E w \in Workers : WorkerFlush(w)
    \/ IsPaired /\ \E w \in Workers : WorkerEnd(w)
    \/ IsPaired /\ DispRecv
    \/ IsPaired /\ DispSend1
    \/ IsPaired /\ DispSend2
    \/ IsPaired /\ Writer1
    \/ IsPaired /\ Writer2
    \/ IsPaired /\ Writer1Fail
    \/ IsPaired /\ Writer2Fail
    \/ IsPaired /\ MainJoin
    \/ IsKoutput /\ KReaderSend
    \/ IsKoutput /\ KReaderFail
    \/ IsKoutput /\ KReaderFinish
    \/ IsKoutput /\ \E w \in Workers : KWorkerRecv(w)
    \/ IsKoutput /\ \E w \in Workers : KWorkerLine(w)
    \/ IsKoutput /\ KMainJoin
SpecCalls == InitCalls /\ [][NextCalls]_vars

\* parse_koutput under a fair scheduler.
FairSpecKoutput == SpecKoutput /\ WF_vars(NextK)

\* ========================================================================
\* Properties of parse_paired
\* ========================================================================
RECURSIVE Recs(_)
\* The records of a sequence of packs, in order.
Recs(packs) == IF packs = <<>> THEN <<>> ELSE Head(packs).recs \o Recs(Tail(packs))

\* The packs of one side found in a sequence of (pack1, pack2) messages.
RECURSIVE Side(_, _)
Side(pairs, i) ==
    IF pairs = <<>> THEN <<>> ELSE Head(pairs)[i] \o Side(Tail(pairs), i)

Range(f) == {f[x] : x \in DOMAIN f}

\* Everything delivered to writer i so far: what it wrote and what waits in
\* its queue.
Delivered1 == Recs(out1 \o Msgs(chan["writer1"]))
Delivered2 == Recs(out2 \o Msgs(chan["writer2"]))

\* Every record of mate i that sits in a pool, in a pack in flight, or in
\* an output.
Held(i) ==
    UNION {Range(IF i = 1 THEN wk[w].records1_pool ELSE wk[w].records2_pool) :
              w \in Workers}
    \cup Range(Recs(Side(Msgs(chan["writer"]), i)))
    \cup Range(Recs(IF i = 1 THEN disp.records1 ELSE disp.records2))
    \cup Range(IF i = 1 THEN Delivered1 ELSE Delivered2)

CommonLen == Min(Len(input1), Len(input2))
Mismatches == {j \in 1 .. CommonLen : input1[j].id # input2[j].id}
WellFormed == Len(input1) = Len(input2) /\ Mismatches = {}

\* The input of mate i restricted to the admitted ids.
Restricted(i) == SelectSeq(InputOf(i), LAMBDA r : r.id \in cfg.id_sets)

\* A call on well-formed inputs with an accepted compression level whose
\* file operations all succeed.
Clean ==
    /\ WellFormed
    /\ cfg.io_error = NoIoError
    /\ ValidLevel(cfg.compression_level)

Returned == result # Running

\* Record r of mate i is the record of an input pair of equal ids, the id
\* being in the selection set.
SoundRecord(r, i) ==
    /\ r.mate = i
    /\ r.pos \in 1 .. CommonLen
    /\ r = InputOf(i)[r.pos]
    /\ input1[r.pos].id = input2[r.pos].id
    /\ r.id \in cfg.id_sets

\* C1: every record in a pool, in a pack or in an output is a record of its
\* mate's input whose pair has equal ids, the id being in the selection set.
FilterSoundness == \A i \in 1 .. 2 : \A r \in Held(i) : SoundRecord(r, i)

\* A run that ended in an error after records were written, with reads
\* that were rejected.
FilterSoundnessWitness ==
    /\ Returned /\ result.st = "Err"
    /\ out1 # <<>> /\ Recs(out1) # <<>> /\ Recs(out2) # <<>>
    /\ \E j \in 1 .. Len(input1) : input1[j].id \notin cfg.id_sets

\* C2: with one worker and well-formed inputs the call returns Ok and each
\* enabled output holds exactly the admitted records of its mate, in input
\* order.
OneWorkerCompleteness ==
    (cfg.threads = 1 /\ Clean /\ Returned) =>
        /\ result = Ok
        /\ cfg.has_writer1 => Recs(out1) = Restricted(1)
        /\ cfg.has_writer2 => Recs(out2) = Restricted(2)

\* Scenario C of the specification: reads r1, r2, r3 of which r1 and r3
\* are selected, here written in two packs.
OneWorkerCompletenessWitness ==
    /\ cfg.threads = 1 /\ WellFormed /\ result = Ok
    /\ Len(input1) = 3 /\ cfg.id_sets = {1, 3}
    /\ Len(out1) = 2 /\ Len(out2) = 2
    /\ Len(Recs(out1)) = 2 /\ Len(Recs(out2)) = 2

\* C3: with both outputs enabled, the i-th record delivered to writer 1 and
\* the i-th record delivered to writer 2 have the same id, at every moment.
PairAlignment ==
    (cfg.has_writer1 /\ cfg.has_writer2) =>
        \A i \in 1 .. Min(Len(Delivered1), Len(Delivered2)) :
            Delivered1[i].id = Delivered2[i].id

\* Two workers, both outputs written, two aligned records in each of them.
PairAlignmentWitness ==
    /\ cfg.threads = 2 /\ cfg.has_writer1 /\ cfg.has_writer2
    /\ Len(Recs(out1)) = 2 /\ Len(Recs(out2)) = 2
    /\ wk[1].records1_pool # <<>> /\ wk[2].records1_pool # <<>>

\* The records follow one another as in the input.
InOrder(recs) == \A i, j \in 1 .. Len(recs) : i < j => recs[i].pos < recs[j].pos

\* C4: within each output the admitted records are in input order, for any
\* number of workers.
GlobalOutputOrder == InOrder(Delivered1) /\ InOrder(Delivered2)

\* The error that carries the two ids of pair j.
PairErrorAt(j) == FastqPairError(input1[j].id, input2[j].id)

\* C5: with equal record counts and some pair of different ids, the call
\* returns the FastqPairError of a mismatched pair, the first one if there
\* is one worker.
PairMismatchFatal ==
    (Len(input1) = Len(input2) /\ Mismatches # {} /\ Returned) =>
        /\ \E j \in Mismatches : result = PairErrorAt(j)
        /\ cfg.threads = 1 =>
              result = PairErrorAt(CHOOSE j \in Mismatches : \A k \in Mismatches : j <= k)

\* A mismatched pair neither id of which is selected, after a selected
\* pair; and two mismatched pairs with one worker.
PairMismatchFatalWitness ==
    /\ Len(input1) = Len(input2) /\ Returned
    /\ result.st = "Err" /\ result.kind = "FastqPairError"
    /\ \/ /\ Mismatches = {2}
          /\ cfg.id_sets = {1}
          /\ cfg.threads = 2
       \/ /\ Mismatches = {1, 2}
          /\ cfg.threads = 1

\* The pairing errors of the collator.
CollatorErrors ==
    {Err("Read1ClosedBeforeRead2"), Err("Read2ClosedBeforeRead1"),
     Err("RecordCountMismatch")}

EqualLengths(m) == Len(m[1]) = Len(m[2])

\* C6: inputs of different record counts (ids equal on the common prefix):
\* the call returns one of the collator's three pairing errors, and no
\* batch pair of different lengths reaches a filter worker.
UnequalCountsFatal ==
    (Len(input1) # Len(input2) /\ Mismatches = {}) =>
        /\ Returned => result \in CollatorErrors
        /\ \A k \in 1 .. Len(chan["reader"]) : EqualLengths(chan["reader"][k].msg)
        /\ \A w \in Workers : Len(wk[w].records1) = Len(wk[w].records2)

\* The shortfall found in the last batches (record count mismatch), with
\* two workers on bounded queues.
UnequalCountsFatalWitness ==
    /\ Len(input1) # Len(input2) /\ Mismatches = {}
    /\ result = Err("RecordCountMismatch")
    /\ cfg.threads = 2
    /\ cfg.nqueue # None

\* Every thread of the scope was spawned and has finished.
Joined == \A t \in Threads : res[t] # Unspawned /\ ~Alive(t)

\* C11: a call on well-formed inputs returns, and every thread of the scope
\* has terminated when it does: no run stops or blocks before that, for
\* every number of workers and every queue depth.
Termination ==
    /\ Clean ~> (Returned /\ Joined)
    /\ [](Returned /\ ValidLevel(cfg.compression_level) => Joined)

\* A finished run of two workers over zero-capacity channels that wrote
\* both outputs.
TerminationWitness ==
    /\ Clean /\ Returned /\ Joined
    /\ cfg.threads = 2 /\ cfg.nqueue = Some(0)
    /\ Recs(out1) # <<>> /\ Recs(out2) # <<>>

\* Some thread of the scope returned an error.
SomeError == \E t \in Threads : res[t].st = "Err"

\* C12: once a thread has returned an error, every thread terminates and
\* the call returns an error, whatever the queues hold.
Cancellation == SomeError ~> (Returned /\ Joined /\ result.st = "Err")

\* Writer 2 failed while the queues of depth one were in use: the
\* dispatcher and a filter worker ended on a failed send, the other threads
\* ended as well.
CancellationWitness ==
    /\ Returned /\ Joined
    /\ cfg.nqueue = Some(1)
    /\ res[writer2_handle].st = "Err"
    /\ res[writer_handle] = Err("DispatchSendError")
    /\ \E w \in Workers : res[parser_handle(w)] = Err("ParserSendError")

\* C13: when the I/O of a file fails, the call returns the error of the
\* thread that owns the file, not the error another thread raised in
\* reaction to it.
FirstErrorReturned ==
    \A t \in Threads :
        (Returned /\ t \in cfg.io_error /\ res[t].st = "Err") => result = res[t]

\* The batches a and b hold the records of the same positions of input 1
\* and of input 2.
AlignedBatches(a, b) ==
    /\ Len(a) = Len(b)
    /\ \A j \in 1 .. Len(a) :
          /\ a[j].pos = b[j].pos
          /\ a[j].pos \in 1 .. CommonLen
          /\ a[j] = input1[a[j].pos]
          /\ b[j] = input2[b[j].pos]
          /\ j > 1 => a[j].pos = a[j - 1].pos + 1

\* Every record of batch a comes before every record of batch b in the
\* input.
BatchBefore(a, b) == \A i \in 1 .. Len(a), j \in 1 .. Len(b) : a[i].pos < b[j].pos

\* C14: the pairs a filter worker examines, the pair of batches the
\* collator is about to send and the pairs in the worker queue consist of
\* the records of the same positions of the two inputs, and the worker
\* queue holds the paired batches in input order, after the batches the
\* workers already took.
CollatorAlignment ==
    LET queue == Msgs(chan["reader"])
    IN  /\ \A w \in Workers : AlignedBatches(wk[w].records1, wk[w].records2)
        /\ coll.pc = "send" => AlignedBatches(coll.rec1[1], coll.rec2[1])
        /\ \A k \in 1 .. Len(queue) :
              /\ AlignedBatches(queue[k][1], queue[k][2])
              /\ \A n \in 1 .. k - 1 : BatchBefore(queue[n][1], queue[k][1])
              /\ \A w \in Workers : BatchBefore(wk[w].records1, queue[k][1])

\* A worker examines the first batch while the second and the third wait
\* in the worker queue.
CollatorAlignmentWitness ==
    /\ wk[1].pc = "zip"
    /\ wk[1].records1 # <<>>
    /\ Len(chan["reader"]) = 2

\* The bytes of an output file: the packs written, one after the other.
RECURSIVE Written(_)
Written(packs) ==
    IF packs = <<>> THEN <<>> ELSE Head(packs).bytes \o Written(Tail(packs))

\* A gzip decoder over a stream of members: the data of the members in
\* order, or None if the stream is not a sequence of whole members.
RECURSIVE Gunzip(_)
Gunzip(stream) ==
    IF stream = <<>> THEN Some(<<>>)
    ELSE IF Head(stream) # GzHeader THEN None
    ELSE LET rest == Tail(stream)
             ends == {k \in 1 .. Len(rest) : DOMAIN rest[k] = {"isize"}}
         IN  IF ends = {} THEN None
             ELSE LET k == CHOOSE e \in ends : \A f \in ends : e <= f
                      data == SubSeq(rest, 1, k - 1)
                      more == Gunzip(SubSeq(rest, k + 1, Len(rest)))
                  IN  IF rest[k].isize # Len(data) \/ more = None
                      THEN None
                      ELSE Some(data \o more[1])

\* What the file of output i decodes to: the file itself if plain.
Decoded(i) ==
    LET file == Written(IF i = 1 THEN out1 ELSE out2)
    IN  IF (IF i = 1 THEN cfg.gzip1 ELSE cfg.gzip2) THEN Gunzip(file) ELSE Some(file)

\* The packs of the uncompressed path of one worker over the selected
\* pairs from the j-th on, as <<packs of output 1, packs of output 2>>: a
\* pair that does not fit one of the pools cuts a pack of each enabled
\* output, and the rest is cut at the end if pool 1 is not empty.
RECURSIVE PlainPacks(_, _, _, _, _)
PlainPacks(j, pool1, cap1, pool2, cap2) ==
    IF j > Len(Restricted(1))
    THEN <<IF pool1 # <<>> /\ cfg.has_writer1 THEN <<pool1>> ELSE <<>>,
           IF pool1 # <<>> /\ cfg.has_writer2 THEN <<pool2>> ELSE <<>>>>
    ELSE LET r1 == Restricted(1)[j]
             r2 == Restricted(2)[j]
             cut == \/ cap1 - PoolLen(pool1) < bytes_size(r1)
                    \/ cap2 - PoolLen(pool2) < bytes_size(r2)
             cut1 == cut /\ cfg.has_writer1
             cut2 == cut /\ cfg.has_writer2
             p1 == IF cut1 THEN <<>> ELSE pool1
             p2 == IF cut2 THEN <<>> ELSE pool2
             c1 == IF cut1 THEN cfg.chunk_bytes ELSE cap1
             c2 == IF cut2 THEN cfg.chunk_bytes ELSE cap2
             rest == PlainPacks(j + 1,
                                Append(p1, r1), GrowCap(c1, PoolLen(p1) + bytes_size(r1)),
                                Append(p2, r2), GrowCap(c2, PoolLen(p2) + bytes_size(r2)))
         IN  <<(IF cut1 THEN <<pool1>> ELSE <<>>) \o rest[1],
               (IF cut2 THEN <<pool2>> ELSE <<>>) \o rest[2]>>

\* The records of each pack of a file, pack by pack.
PackRecs(packs) == [k \in 1 .. Len(packs) |-> packs[k].recs]

OnePackPerBatch == \A w \in Workers : wk[w].packs <= 1

\* The call was made with a compression level the library rejects.
InvalidLevel == cfg.compression_level \notin CompressionLevels

\* Nothing of the pipeline exists: no thread was spawned, no record was
\* read from an input, no message was sent and nothing was written to an
\* output.
NothingStarted ==
    /\ \A t \in Threads : res[t] = Unspawned
    /\ rpos = [i \in 1 .. 2 |-> 0]
    /\ chan = [ch \in Channels |-> <<>>]
    /\ out1 = <<>> /\ out2 = <<>>

\* C17: a call with a rejected compression level returns the configuration
\* error, and at no time of that call is a thread spawned, an input read
\* or an output written, whether or not an output is gzip.
LevelValidatedAtEntry ==
    /\ [](InvalidLevel =>
            /\ NothingStarted
            /\ Returned => result = Err("InvalidCompressionLevel"))
    /\ InvalidLevel ~> Returned

\* A call with a rejected level and two plain outputs has returned the
\* configuration error.
LevelValidatedAtEntryWitness ==
    /\ InvalidLevel
    /\ cfg.has_writer1 /\ cfg.has_writer2 /\ ~cfg.gzip1 /\ ~cfg.gzip2
    /\ input1 # <<>>
    /\ result = Err("InvalidCompressionLevel")

\* No id of an input record is in the selection set.
NoneSelected ==
    \A i \in 1 .. 2 : \A j \in 1 .. Len(InputOf(i)) :
        InputOf(i)[j].id \notin cfg.id_sets

\* The empty cases: two inputs of zero records, or nothing selected.
EmptyCase == (input1 = <<>> /\ input2 = <<>>) \/ NoneSelected

\* The level is accepted and no file operation fails.
NoFault == ValidLevel(cfg.compression_level) /\ cfg.io_error = NoIoError

\* Nothing is on its way to the dispatcher or to a writer, and nothing was
\* written to an output.
NothingDelivered ==
    /\ chan["writer"] = <<>> /\ chan["writer1"] = <<>> /\ chan["writer2"] = <<>>
    /\ out1 = <<>> /\ out2 = <<>>

\* C18: in an empty case (both inputs of zero records, or no input id in
\* the selection set) nothing is ever delivered to a writer and the outputs
\* stay empty; and the call returns Ok provided the inputs are well-formed
\* (equal record counts, pairwise equal ids).
EmptyCases ==
    NoFault /\ EmptyCase =>
        /\ NothingDelivered
        /\ Returned /\ WellFormed => result = Ok

\* C18 as stated, for every pair of inputs: an empty case returns Ok.
EmptyCasesAnyInput ==
    NoFault /\ EmptyCase =>
        /\ NothingDelivered
        /\ Returned => result = Ok

\* A call of two workers over non-empty inputs, both outputs enabled and
\* nothing selected, has returned Ok.
EmptyCasesWitness ==
    /\ NoFault /\ NoneSelected /\ WellFormed
    /\ input1 # <<>>
    /\ cfg.has_writer1 /\ cfg.has_writer2 /\ cfg.threads = 2
    /\ result = Ok /\ Joined

\* ========================================================================
\* Properties of parse_koutput
\* ========================================================================
\* The fields of a line, read off the positions of its tabs.
TabsOf(line) == {i \in 1 .. Len(line) : line[i] = TAB}
NthTab(line, n) ==
    IF n = 0 THEN 0
    ELSE IF n > Cardinality(TabsOf(line)) THEN Len(line) + 1
    ELSE CHOOSE i \in TabsOf(line) : Cardinality({j \in TabsOf(line) : j < i}) = n - 1
NumFields(line) == Cardinality(TabsOf(line)) + 1
\* Field n of the line, counted from 0.
FieldOf(line, n) == SubSeq(line, NthTab(line, n) + 1, NthTab(line, n + 1) - 1)

Occurs(pattern, bytes) ==
    \E i \in 1 .. Len(bytes) + 1 :
        /\ i + Len(pattern) - 1 <= Len(bytes)
        /\ SubSeq(bytes, i, i + Len(pattern) - 1) = pattern

\* Where the first "(taxid " of a field ends, and the first ')' after it.
PrefixEnds(field) ==
    {i + Len(KOUTPUT_TAXID_PREFIX) - 1 : i \in
        {i \in 1 .. Len(field) :
            /\ i + Len(KOUTPUT_TAXID_PREFIX) - 1 <= Len(field)
            /\ SubSeq(field, i, i + Len(KOUTPUT_TAXID_PREFIX) - 1) = KOUTPUT_TAXID_PREFIX}}
HasPrefix(field) == PrefixEnds(field) # {}
PrefixEnd(field) == CHOOSE i \in PrefixEnds(field) : \A j \in PrefixEnds(field) : i <= j
ClosersOf(field) == {i \in PrefixEnd(field) + 1 .. Len(field) : field[i] = KOUTPUT_TAXID_SUFFIX}
IsClosed(field) == HasPrefix(field) /\ ClosersOf(field) # {}
Between(field) ==
    SubSeq(field, PrefixEnd(field) + 1,
           (CHOOSE i \in ClosersOf(field) : \A j \in ClosersOf(field) : i <= j) - 1)

\* The taxid of field 2: the id inside "(taxid ...)", or the bare field.
\* An unclosed "(taxid " names no taxid.
NamesTaxid(field) == HasPrefix(field) => IsClosed(field)
TaxidNamed(field) == IF HasPrefix(field) THEN Between(field) ELSE field

LcaExcluded(lca) ==
    /\ cfg.exclude_aho # None
    /\ \E pattern \in cfg.exclude_aho[1] : Occurs(pattern, lca)

\* The line qualifies: five fields or more, status C, taxid in the include
\* set, no exclusion pattern in the LCA field.
Qualifies(line) ==
    /\ NumFields(line) >= 5
    /\ FieldOf(line, 0) = <<"C">>
    /\ NamesTaxid(FieldOf(line, 2))
    /\ TaxidNamed(FieldOf(line, 2)) \in cfg.include_sets
    /\ ~LcaExcluded(FieldOf(line, 4))

\* The entry of a qualifying line.
EntryOf(line) ==
    [k |-> FieldOf(line, 1),
     v |-> <<FieldOf(line, 3), TaxidNamed(FieldOf(line, 2)), FieldOf(line, 4)>>]

QualifyingLines == {n \in 1 .. Len(report) : Qualifies(report[n])}

\* C7: every entry of the returned map is the entry of a qualifying line
\* of the report.
SelectionSoundness ==
    \A e \in selection :
        \E n \in QualifyingLines : e = EntryOf(report[n])

\* Two parsers returned an entry while the report held a line whose LCA
\* field matches an exclusion pattern, and one entry comes from a line of
\* six fields.
SelectionSoundnessWitness ==
    /\ result = Ok /\ cfg.threads = 2
    /\ selection # {}
    /\ \E n \in 1 .. Len(report) :
          /\ NumFields(report[n]) >= 5
          /\ LcaExcluded(FieldOf(report[n], 4))
    /\ \E n \in QualifyingLines :
          /\ NumFields(report[n]) = 6
          /\ EntryOf(report[n]) \in selection

\* C8: parse_koutput returns Ok, and the map holds exactly one entry for
\* the read id of every qualifying line.
SelectionCompleteness ==
    Returned =>
        /\ result = Ok
        /\ \A n \in QualifyingLines :
              Cardinality({e \in selection : e.k = FieldOf(report[n], 1)}) = 1

\* Three qualifying lines of two reads parsed by two workers, the last
\* tuple sent by the flush at shutdown.
SelectionCompletenessWitness ==
    /\ result = Ok /\ cfg.threads = 2 /\ cfg.batch_size = 2
    /\ Cardinality(QualifyingLines) = 3
    /\ Cardinality(selection) = 2

\* A classified line of five fields or more whose LCA field is not excluded.
Classified(line) ==
    /\ NumFields(line) >= 5
    /\ FieldOf(line, 0) = <<"C">>
    /\ ~LcaExcluded(FieldOf(line, 4))

\* C9: what a parser does with field 2 of a classified line of five fields
\* or more whose LCA field is not excluded: with "(taxid " in the field the
\* line passes exactly when a ')' follows and the bytes in between are in
\* the include set, and these bytes are stored; without it the line passes
\* exactly when the whole field is in the set, and the field is stored.
TaxidForms ==
    \A w \in DOMAIN kwk :
        (kwk[w].last # None /\ Classified(kwk[w].last[1].line)) =>
            LET field == FieldOf(kwk[w].last[1].line, 2)
                sent == kwk[w].last[1].sent
            IN  IF HasPrefix(field)
                THEN /\ sent # None <=> (IsClosed(field) /\ Between(field) \in cfg.include_sets)
                     /\ sent # None => sent[1].v[2] = Between(field)
                ELSE /\ sent # None <=> field \in cfg.include_sets
                     /\ sent # None => sent[1].v[2] = field

\* A report that mixes the bare and the parenthesized form of taxon 5: a
\* tuple of each kind was drained.
TaxidFormsWitness ==
    /\ result = Ok
    /\ \E n, m \in QualifyingLines :
          /\ ~HasPrefix(FieldOf(report[n], 2))
          /\ HasPrefix(FieldOf(report[m], 2))
          /\ TaxidNamed(FieldOf(report[n], 2)) = TaxidNamed(FieldOf(report[m], 2))
          /\ EntryOf(report[n]) \in Range(drained)
          /\ EntryOf(report[m]) \in Range(drained)

\* A parser discarded a line whose field 2 is wholly in the include set,
\* because the id inside "(taxid ...)" is not, or because no ')' follows.
TaxidFormsDiscardWitness ==
    \E w \in DOMAIN kwk :
        /\ kwk[w].last # None
        /\ Classified(kwk[w].last[1].line)
        /\ FieldOf(kwk[w].last[1].line, 2) \in cfg.include_sets
        /\ ~IsClosed(FieldOf(kwk[w].last[1].line, 2))
        /\ HasPrefix(FieldOf(kwk[w].last[1].line, 2))
        /\ kwk[w].last[1].sent = None

\* The last tuple of key k in a sequence of tuples.
LastIn(tuples, k) ==
    tuples[CHOOSE i \in 1 .. Len(tuples) :
              /\ tuples[i].k = k
              /\ \A j \in 1 .. Len(tuples) : tuples[j].k = k => j <= i]

\* The last qualifying line of read k in the report.
LastQualifying(k) ==
    CHOOSE n \in QualifyingLines :
        /\ FieldOf(report[n], 1) = k
        /\ \A m \in QualifyingLines : FieldOf(report[m], 1) = k => m <= n

\* C10: parse_koutput returns Ok; the map holds at most one entry per read
\* id, the last tuple of that id that was drained; with one parser that
\* is the entry of the last qualifying line of the id in the report.
LastWriterWins ==
    Returned =>
        /\ result = Ok
        /\ \A e \in selection :
              /\ Cardinality({x \in selection : x.k = e.k}) = 1
              /\ e = LastIn(drained, e.k)
              /\ cfg.threads = 1 => e = EntryOf(report[LastQualifying(e.k)])
        /\ \A i \in 1 .. Len(drained) : \E e \in selection : e.k = drained[i].k

\* One parser, two qualifying lines of read a with different entries.
LastWriterWinsWitness ==
    /\ result = Ok /\ cfg.threads = 1
    /\ \E n, m \in QualifyingLines :
          /\ n < m
          /\ FieldOf(report[n], 1) = FieldOf(report[m], 1)
          /\ EntryOf(report[n]) # EntryOf(report[m])
          /\ EntryOf(report[m]) \in selection

\* The tuples the lines of a report yield, in the order of the lines.
RECURSIVE TuplesOf(_)
TuplesOf(lines) ==
    IF lines = <<>> THEN <<>>
    ELSE (IF ParseLine(Head(lines)) = None THEN <<>> ELSE ParseLine(Head(lines)))
         \o TuplesOf(Tail(lines))

\* How many times e occurs in the sequence.
Count(seq, e) == Cardinality({i \in 1 .. Len(seq) : seq[i] = e})

\* The two sequences hold the same elements the same number of times.
SameBag(s, t) ==
    \A e \in {s[i] : i \in 1 .. Len(s)} \cup {t[i] : i \in 1 .. Len(t)} :
        Count(s, e) = Count(t, e)

\* No parser worker is inside a send, and a send on the output queue
\* would not wait.
ParsersNeverBlock ==
    /\ \A w \in Workers : ~Blocked(kparser_handle(w))
    /\ HasRoom("koutput")

\* The main thread has drained, or returned, only with every parser worker
\* terminated.
DrainAfterJoin ==
    drained # <<>> \/ Returned => \A w \in Workers : ~Alive(kparser_handle(w))

\* C19: parse_koutput returns; a parser worker never waits to send a
\* result; the main thread drains the output queue only once every parser
\* worker has terminated; and the drained sequence holds the tuple of
\* every line that yields one, those of the last partial batches included.
WaitThenDrain ==
    /\ <>Returned
    /\ [](ParsersNeverBlock /\ DrainAfterJoin)
    /\ [](Returned => result = Ok /\ SameBag(drained, TuplesOf(report)))

\* Two workers over zero-capacity line queues drained three tuples in
\* batches of two: a partial batch was flushed at shutdown.
WaitThenDrainWitness ==
    /\ result = Ok
    /\ cfg.threads = 2 /\ cfg.batch_size = 2 /\ cfg.nqueue = Some(0)
    /\ Len(drained) = 3

\* C20: the length of the tuple a worker builds for a line is field 3 of
\* the line, the bytes between its third and its fourth tab, and a tuple is
\* built for lines of five fields or more only; so every entry of the
\* returned map carries field 3 of a line of five fields or more.
LengthField ==
    /\ \A w \in Workers :
          kwk[w].last # None =>
              LET line == kwk[w].last[1].line
                  sent == kwk[w].last[1].sent
              IN  /\ NumFields(line) < 5 => sent = None
                  /\ sent # None =>
                        /\ sent[1].v[1] = FieldOf(line, 3)
                        /\ sent[1].v[1] =
                              SubSeq(line, NthTab(line, 3) + 1, NthTab(line, 4) - 1)
                        /\ NthTab(line, 4) <= Len(line)
    /\ \A e \in selection :
          \E n \in 1 .. Len(report) :
              /\ NumFields(report[n]) >= 5
              /\ e.k = FieldOf(report[n], 1)
              /\ e.v[1] = FieldOf(report[n], 3)

\* A worker built the tuple of a line of six fields whose length field and
\* LCA field differ.
LengthFieldWitness ==
    \E w \in Workers :
        /\ kwk[w].last # None
        /\ kwk[w].last[1].sent # None
        /\ NumFields(kwk[w].last[1].line) = 6
        /\ FieldOf(kwk[w].last[1].line, 3) # FieldOf(kwk[w].last[1].line, 4)

\* ========================================================================
\* Further properties of parse_paired
\* ========================================================================
\* C21: when a call has returned Ok, each enabled output holds the admitted
\* records of its mate, each as many times as the input does, for every
\* number of workers and every interleaving.
NoLossNoDuplication ==
    result = Ok =>
        /\ cfg.has_writer1 => SameBag(Recs(out1), Restricted(1))
        /\ cfg.has_writer2 => SameBag(Recs(out2), Restricted(2))

\* Two workers wrote the two admitted reads to both outputs, in another
\* order than the order of the input.
NoLossNoDuplicationWitness ==
    /\ result = Ok /\ cfg.threads = 2
    /\ cfg.has_writer1 /\ cfg.has_writer2
    /\ Len(Recs(out1)) = 2
    /\ Recs(out1) # Restricted(1)

\* The sequence is strictly increasing.
Increasing(seq) == \A a, b \in 1 .. Len(seq) : a < b => seq[a] < seq[b]

\* The input positions of the records of a sequence that worker w
\* processed, in the order of the sequence.
PositionsBy(w, recs) ==
    LET mine == SelectSeq(recs, LAMBDA r : \E k \in 1 .. Len(wk[w].done) :
                                              wk[w].done[k] = r.pos)
    IN  [k \in 1 .. Len(mine) |-> mine[k].pos]

\* C22: at every moment, for every filter worker, the admitted records the
\* worker has processed were processed in input order, and those of them
\* that are written to an output, or queued for its writer, are there in
\* input order.
PerWorkerOrder ==
    \A w \in Workers :
        /\ Increasing(wk[w].done)
        /\ Increasing(PositionsBy(w, Recs(out1 \o Msgs(chan["writer1"]))))
        /\ Increasing(PositionsBy(w, Recs(out2 \o Msgs(chan["writer2"]))))

\* Of two workers, one took two batches of one read and has both reads in
\* both outputs, in two packs.
PerWorkerOrderWitness ==
    /\ cfg.threads = 2 /\ cfg.batch_size = 1
    /\ Len(out1) >= 2 /\ Len(out2) >= 2
    /\ \E w \in Workers :
          /\ Len(PositionsBy(w, Recs(out1))) >= 2
          /\ Len(PositionsBy(w, Recs(out2))) >= 2

\* C23: a message on its way to the dispatcher has Some(pack) on the side
\* of an enabled output and None on the side of a disabled one, and the
\* pools of a worker hold only the records admitted since its last
\* mid-stream flush, the pool of a disabled output included.
FlushResetsPools ==
    /\ \A k \in 1 .. Len(chan["writer"]) :
          /\ chan["writer"][k].msg[1] # None <=> cfg.has_writer1
          /\ chan["writer"][k].msg[2] # None <=> cfg.has_writer2
    /\ \A w \in Workers :
          /\ Len(wk[w].records1_pool) = wk[w].since
          /\ Len(wk[w].records2_pool) = wk[w].since

\* ========================================================================
\* Properties of both entry points
\* ========================================================================
\* C24: a call that has returned Ok spawned no thread that returned an
\* error, and parse_koutput has built no selection map unless it returned
\* Ok.
OkMeansAllOk ==
    /\ result = Ok => \A t \in DOMAIN res : res[t].st # "Err"
    /\ IsKoutput /\ result # Ok => selection = {} /\ drained = <<>>

\* Both readers of parse_paired failed after the same number of records,
\* the collator saw its two inputs closed and returned Ok, and the call
\* returned an error.
OkMeansAllOkWitness ==
    /\ IsPaired
    /\ res[reader1_handle].st = "Err" /\ res[reader2_handle].st = "Err"
    /\ rpos[1] = rpos[2] /\ rpos[1] > 0
    /\ res[reader_handle] = Ok
    /\ result.st = "Err"

\* ========================================================================
\* Further properties of parse_koutput
\* ========================================================================
\* No two lines of the report have the same read id.
UniqueIds ==
    \A n, m \in 1 .. Len(report) :
        n # m => FieldOf(report[n], 1) # FieldOf(report[m], 1)

\* The map of a report, as a function of the report and of the filters
\* alone: the tuples of its lines.
MapOf(lines) == {TuplesOf(lines)[k] : k \in 1 .. Len(TuplesOf(lines))}

\* C25: for a report in which no read id occurs twice, the returned map is
\* the map of the report, whatever the number of parser workers, the batch
\* size, the queue depth and the interleaving.
Determinism ==
    Returned /\ UniqueIds => result = Ok /\ selection = MapOf(report)

\* Two workers, two entries, drained in the reverse of the order of their
\* lines.
DeterminismWitness ==
    /\ result = Ok /\ UniqueIds
    /\ cfg.threads = 2
    /\ Cardinality(selection) = 2
    /\ Len(drained) = 2 /\ drained # TuplesOf(report)

====
